---- MODULE Spec2Model ----
(***************************************************************************)
(* FastShip matching engine (src/public/shared/js/matcher.js, class        *)
(* FastShipMatcher): candidate fetch, scoring, ranking and the contact     *)
(* request it triggers.                                                    *)
(*                                                                         *)
(* Representation.                                                         *)
(*  - A JavaScript string is the sequence of its character codes, so that  *)
(*    toLowerCase, trim and includes are computed and not assumed.  A      *)
(*    missing location (null, undefined) and the empty string are both     *)
(*    falsy and are both written << >>.                                    *)
(*  - A sub-score is an integer number of tenths (1.0 is 10, 0.7 is 7);    *)
(*    the location score, an average of two sub-scores, is a number of     *)
(*    twentieths.  The composite score is a number of points: with these   *)
(*    sub-scores 40*L + 30*C + 20*D + 10*V is always a whole number.       *)
(*  - A numeric field (weight, capacity) is <<n>> when parseFloat reads    *)
(*    the number n from it and << >> when parseFloat yields NaN.           *)
(*  - A date field is <<t>> when new Date() reads the instant t from it    *)
(*    (t in hours since the epoch) and << >> for an invalid date.          *)
(***************************************************************************)
EXTENDS Integers, Sequences, FiniteSets, TLC

VARIABLES
    shipment,          \* scorer input: the shipment of the pair being scored
    trip,              \* scorer input: the trip of the pair being scored
    scored,            \* what the scorer returned for (shipment, trip), or NotScored
    trips,             \* data store: table trips, in the order the store returns rows
    shippers,          \* data store: table shippers
    contact_requests,  \* data store: table contact_requests
    currentUser,       \* window.sessionManager.currentUser (NoUser when null)
    now,               \* the clock, in hours since the epoch
    ret,               \* the last invocation: its arguments, what it read and what it returned
    failures           \* the (failure kind, reported reason) pairs callers have been given

vars == <<shipment, trip, scored, trips, shippers, contact_requests,
          currentUser, now, ret, failures>>

----------------------------------------------------------------------------
(* Numbers and strings *)

Min(a, b) == IF a <= b THEN a ELSE b

Max(a, b) == IF a >= b THEN a ELSE b

Abs(a) == IF a >= 0 THEN a ELSE 0 - a

HoursPerDay == 24

\* String.prototype.toLowerCase on the Latin capitals (Arabic letters have no case)
ToLowerCase(s) == [i \in 1..Len(s) |-> IF s[i] \in 65..90 THEN s[i] + 32 ELSE s[i]]

\* the white space String.prototype.trim removes: space, tab, line feed, carriage return
IsSpace(c) == c \in {32, 9, 10, 13}

RECURSIVE TrimStart(_)
TrimStart(s) ==
    IF s # << >> /\ IsSpace(Head(s)) THEN TrimStart(Tail(s)) ELSE s

RECURSIVE TrimEnd(_)
TrimEnd(s) ==
    IF s # << >> /\ IsSpace(s[Len(s)]) THEN TrimEnd(SubSeq(s, 1, Len(s) - 1)) ELSE s

Trim(s) == TrimEnd(TrimStart(s))

\* String.prototype.includes: t occurs in s as a contiguous run of characters
Includes(s, t) ==
    \E i \in 0..(Len(s) - Len(t)) : SubSeq(s, i + 1, i + Len(t)) = t

\* parseFloat(x) || 0
ParseFloatOrZero(field) == IF field = << >> THEN 0 ELSE field[1]

----------------------------------------------------------------------------
(* The gazetteer of locationSimilarity, as character codes *)

Riyadh  == <<1575, 1604, 1585, 1610, 1575, 1590>>
Jeddah  == <<1580, 1583, 1577>>
Makkah  == <<1605, 1603, 1577>>
Madinah == <<1575, 1604, 1605, 1583, 1610, 1606, 1577>>
Dammam  == <<1575, 1604, 1583, 1605, 1575, 1605>>
Khobar  == <<1575, 1604, 1582, 1576, 1585>>
Abha    == <<1571, 1576, 1607, 1575>>
Tabuk   == <<1578, 1576, 1608, 1603>>
Hail    == <<1581, 1575, 1574, 1604>>
Qassim  == <<1575, 1604, 1602, 1589, 1610, 1605>>
Ahsa    == <<1575, 1604, 1571, 1581, 1587, 1575, 1569>>
Jazan   == <<1580, 1575, 1586, 1575, 1606>>
Najran  == <<1606, 1580, 1585, 1575, 1606>>
Jawf    == <<1575, 1604, 1580, 1608, 1601>>

cities == <<Riyadh, Jeddah, Makkah, Madinah, Dammam, Khobar, Abha, Tabuk, Hail, Qassim>>

\* regions: centre, west, east, south, north
regions == << {Riyadh, Qassim, Hail},
              {Makkah, Jeddah, Madinah},
              {Dammam, Khobar, Ahsa},
              {Abha, Jazan, Najran},
              {Tabuk, Jawf, Hail} >>

\* cities.find(city => clean.includes(city)): the index of the first gazetteer
\* city the string contains, 0 for undefined
FindCity(clean) ==
    IF \E i \in 1..Len(cities) : Includes(clean, cities[i])
    THEN CHOOSE i \in 1..Len(cities) :
            /\ Includes(clean, cities[i])
            /\ \A j \in 1..(i - 1) : ~Includes(clean, cities[j])
    ELSE 0

SameRegion(clean1, clean2) ==
    \E r \in 1..Len(regions) :
        /\ \E city \in regions[r] : Includes(clean1, city)
        /\ \E city \in regions[r] : Includes(clean2, city)

\* locationSimilarity with the substring rule tested in one direction only
locationSimilarityOneWay(loc1, loc2) ==
    IF loc1 = << >> \/ loc2 = << >> THEN 0
    ELSE LET clean1 == Trim(ToLowerCase(loc1))
             clean2 == Trim(ToLowerCase(loc2))
             city1  == FindCity(clean1)
             city2  == FindCity(clean2)
         IN  IF clean1 = clean2 THEN 10
             ELSE IF Includes(clean1, clean2) THEN 8
             ELSE IF city1 # 0 /\ city2 # 0 /\ city1 = city2 THEN 9
             ELSE IF SameRegion(clean1, clean2) THEN 6
             ELSE 2

locationSimilarity(loc1, loc2) ==
    IF loc1 = << >> \/ loc2 = << >> THEN 0
    ELSE LET clean1 == Trim(ToLowerCase(loc1))
             clean2 == Trim(ToLowerCase(loc2))
             city1  == FindCity(clean1)
             city2  == FindCity(clean2)
         IN  IF clean1 = clean2 THEN 10
             ELSE IF Includes(clean1, clean2) \/ Includes(clean2, clean1) THEN 8
             ELSE IF city1 # 0 /\ city2 # 0 /\ city1 = city2 THEN 9
             ELSE IF SameRegion(clean1, clean2) THEN 6
             ELSE 2

----------------------------------------------------------------------------
(* The four sub-scores and the composite score *)

\* (pickupMatch + deliveryMatch) / 2, in twentieths
calculateLocationScore(s, t) ==
    locationSimilarity(s.pickup_location, t.origin)
        + locationSimilarity(s.delivery_location, t.destination)

\* w / c >= k / 10 and w / c <= k / 10 for a divisor c that is not 0
UtilizationGe(w, c, k) == IF c > 0 THEN 10 * w >= k * c ELSE 10 * w <= k * c

UtilizationLe(w, c, k) == IF c > 0 THEN 10 * w <= k * c ELSE 10 * w >= k * c

\* calculateCapacityScore with the [0.5, 1.0] band tested before the [0.7, 0.9] band
calculateCapacityScoreReordered(s, t) ==
    LET shipmentWeight    == ParseFloatOrZero(s.weight)
        availableCapacity == ParseFloatOrZero(t.capacity)
    IN  IF availableCapacity = 0 THEN 0
        ELSE IF UtilizationGe(shipmentWeight, availableCapacity, 5)
                /\ UtilizationLe(shipmentWeight, availableCapacity, 10) THEN 8
        ELSE IF UtilizationGe(shipmentWeight, availableCapacity, 7)
                /\ UtilizationLe(shipmentWeight, availableCapacity, 9) THEN 10
        ELSE IF UtilizationGe(shipmentWeight, availableCapacity, 3)
                /\ UtilizationLe(shipmentWeight, availableCapacity, 12) THEN 6
        ELSE IF ~UtilizationLe(shipmentWeight, availableCapacity, 12) THEN 0
        ELSE 4

calculateCapacityScore(s, t) ==
    LET shipmentWeight    == ParseFloatOrZero(s.weight)
        availableCapacity == ParseFloatOrZero(t.capacity)
    IN  IF availableCapacity = 0 THEN 0
        ELSE IF UtilizationGe(shipmentWeight, availableCapacity, 7)
                /\ UtilizationLe(shipmentWeight, availableCapacity, 9) THEN 10
        ELSE IF UtilizationGe(shipmentWeight, availableCapacity, 5)
                /\ UtilizationLe(shipmentWeight, availableCapacity, 10) THEN 8
        ELSE IF UtilizationGe(shipmentWeight, availableCapacity, 3)
                /\ UtilizationLe(shipmentWeight, availableCapacity, 12) THEN 6
        ELSE IF ~UtilizationLe(shipmentWeight, availableCapacity, 12) THEN 0
        ELSE 4

\* calculateDateScore without Math.abs
calculateDateScoreSigned(s, t) ==
    IF s.preferred_date = << >> \/ t.travel_date = << >> THEN 0
    ELSE LET diffHours == s.preferred_date[1] - t.travel_date[1]
         IN  IF diffHours = 0 THEN 10
             ELSE IF diffHours <= 1 * HoursPerDay THEN 9
             ELSE IF diffHours <= 3 * HoursPerDay THEN 7
             ELSE IF diffHours <= 7 * HoursPerDay THEN 5
             ELSE IF diffHours <= 14 * HoursPerDay THEN 3
             ELSE 0

\* an invalid date makes diffDays NaN, and every comparison with NaN is false
calculateDateScore(s, t) ==
    IF s.preferred_date = << >> \/ t.travel_date = << >> THEN 0
    ELSE LET diffHours == Abs(s.preferred_date[1] - t.travel_date[1])
         IN  IF diffHours = 0 THEN 10
             ELSE IF diffHours <= 1 * HoursPerDay THEN 9
             ELSE IF diffHours <= 3 * HoursPerDay THEN 7
             ELSE IF diffHours <= 7 * HoursPerDay THEN 5
             ELSE IF diffHours <= 14 * HoursPerDay THEN 3
             ELSE 0

\* x || 'any' for a vehicle type: the empty string stands for every falsy value
OrAny(x) == IF x = "" THEN "any" ELSE x

\* a table whose truck entry has lost pickup
similarTypesPartial ==
    [x \in {"pickup", "van", "truck"} |->
        CASE x = "pickup" -> {"van", "truck"}
          [] x = "van"    -> {"pickup", "truck"}
          [] x = "truck"  -> {"van"}]

similarTypes ==
    [x \in {"pickup", "van", "truck"} |->
        CASE x = "pickup" -> {"van", "truck"}
          [] x = "van"    -> {"pickup", "truck"}
          [] x = "truck"  -> {"van", "pickup"}]

\* calculateVehicleScore with nothing given to types that are not alike
calculateVehicleScoreZero(s, t) ==
    LET shipmentType == OrAny(s.vehicle_type_preferred)
        vehicleType  == OrAny(t.vehicle_type)
    IN  IF shipmentType = "any" \/ vehicleType = "any" THEN 10
        ELSE IF shipmentType = vehicleType THEN 10
        ELSE IF shipmentType \in DOMAIN similarTypes
                /\ vehicleType \in similarTypes[shipmentType] THEN 7
        ELSE 0

calculateVehicleScore(s, t) ==
    LET shipmentType == OrAny(s.vehicle_type_preferred)
        vehicleType  == OrAny(t.vehicle_type)
    IN  IF shipmentType = "any" \/ vehicleType = "any" THEN 10
        ELSE IF shipmentType = vehicleType THEN 10
        ELSE IF shipmentType \in DOMAIN similarTypes
                /\ vehicleType \in similarTypes[shipmentType] THEN 7
        ELSE 3

\* calculateMatchScore with the location weight raised to 50 and the clamp left out
calculateMatchScoreHeavy(s, t) ==
    (calculateLocationScore(s, t) * 50
        + 2 * calculateCapacityScore(s, t) * 30
        + 2 * calculateDateScore(s, t) * 20
        + 2 * calculateVehicleScore(s, t) * 10) \div 20

\* calculateMatchScore with the location and capacity weights exchanged
calculateMatchScoreSwapped(s, t) ==
    Min(100, Max(0, (calculateLocationScore(s, t) * 30
                        + 2 * calculateCapacityScore(s, t) * 40
                        + 2 * calculateDateScore(s, t) * 20
                        + 2 * calculateVehicleScore(s, t) * 10) \div 20))

\* score before the clamp, in twentieths of a point
RawScore20(s, t) ==
    calculateLocationScore(s, t) * 40
        + 2 * calculateCapacityScore(s, t) * 30
        + 2 * calculateDateScore(s, t) * 20
        + 2 * calculateVehicleScore(s, t) * 10

calculateMatchScore(s, t) == Min(100, Max(0, RawScore20(s, t) \div 20))

----------------------------------------------------------------------------
(* The reason generator *)

\* reasons.push(x) when cond holds
PushIf(reasons, cond, x) == IF cond THEN Append(reasons, x) ELSE reasons

\* getMatchReasons with the second capacity test not under else
getMatchReasonsTwoCapacity(s, t) ==
    LET pickupMatch       == locationSimilarity(s.pickup_location, t.origin)
        deliveryMatch     == locationSimilarity(s.delivery_location, t.destination)
        shipmentWeight    == ParseFloatOrZero(s.weight)
        availableCapacity == ParseFloatOrZero(t.capacity)
        \* a division by 0 gives Infinity, -Infinity or NaN: in no band
        inBand(lo, hi)    == /\ availableCapacity # 0
                             /\ UtilizationGe(shipmentWeight, availableCapacity, lo)
                             /\ UtilizationLe(shipmentWeight, availableCapacity, hi)
        validDates        == s.preferred_date # << >> /\ t.travel_date # << >>
        diffHours         == Abs(s.preferred_date[1] - t.travel_date[1])
        shipmentType      == OrAny(s.vehicle_type_preferred)
        vehicleType       == OrAny(t.vehicle_type)
        r1 == PushIf(<< >>, pickupMatch >= 8, <<"pickup_location_matches">>)
        r2 == PushIf(r1, deliveryMatch >= 8, <<"delivery_location_matches">>)
        r2a == PushIf(r2, inBand(7, 9), <<"capacity_fits_exactly">>)
        r3 == PushIf(r2a, inBand(5, 10), <<"capacity_fits">>)
        r4 == IF validDates /\ diffHours = 0 THEN Append(r3, <<"date_matches_exactly">>)
              ELSE IF validDates /\ diffHours <= 3 * HoursPerDay
                   THEN Append(r3, <<"days_apart", diffHours>>)
              ELSE r3
    IN  PushIf(r4, shipmentType # "any" /\ vehicleType # "any" /\ shipmentType = vehicleType,
               <<"vehicle_type_matches">>)

\* A reason is a tuple whose first element names the message; the days-apart
\* message also carries the difference it prints, in hours.
getMatchReasons(s, t) ==
    LET pickupMatch       == locationSimilarity(s.pickup_location, t.origin)
        deliveryMatch     == locationSimilarity(s.delivery_location, t.destination)
        shipmentWeight    == ParseFloatOrZero(s.weight)
        availableCapacity == ParseFloatOrZero(t.capacity)
        \* a division by 0 gives Infinity, -Infinity or NaN: in no band
        inBand(lo, hi)    == /\ availableCapacity # 0
                             /\ UtilizationGe(shipmentWeight, availableCapacity, lo)
                             /\ UtilizationLe(shipmentWeight, availableCapacity, hi)
        validDates        == s.preferred_date # << >> /\ t.travel_date # << >>
        diffHours         == Abs(s.preferred_date[1] - t.travel_date[1])
        shipmentType      == OrAny(s.vehicle_type_preferred)
        vehicleType       == OrAny(t.vehicle_type)
        r1 == PushIf(<< >>, pickupMatch >= 8, <<"pickup_location_matches">>)
        r2 == PushIf(r1, deliveryMatch >= 8, <<"delivery_location_matches">>)
        r3 == IF inBand(7, 9) THEN Append(r2, <<"capacity_fits_exactly">>)
              ELSE IF inBand(5, 10) THEN Append(r2, <<"capacity_fits">>)
              ELSE r2
        r4 == IF validDates /\ diffHours = 0 THEN Append(r3, <<"date_matches_exactly">>)
              ELSE IF validDates /\ diffHours <= 3 * HoursPerDay
                   THEN Append(r3, <<"days_apart", diffHours>>)
              ELSE r3
    IN  PushIf(r4, shipmentType # "any" /\ vehicleType # "any" /\ shipmentType = vehicleType,
               <<"vehicle_type_matches">>)

----------------------------------------------------------------------------
(* The data store and the session *)

NoUser == [id |-> ""]

\* new Date().toISOString().split('T')[0]: the UTC calendar day of the clock, as
\* a day number (ISO dates compare as their day numbers do)
TodayISO(clock) == clock \div HoursPerDay

\* the calendar day of a date column
DateColumn(d) == d[1] \div HoursPerDay

\* the trips query without its status filter
QueryActiveTripsAnyStatus(table, today) ==
    SelectSeq(table, LAMBDA t : DateColumn(t.travel_date) >= today)

\* from('trips').select(...).eq('status', 'active').gte('travel_date', today):
\* the matching rows, in the order the store holds them
QueryActiveTrips(table, today) ==
    SelectSeq(table, LAMBDA t : t.status = "active" /\ DateColumn(t.travel_date) >= today)

\* what the store answers to a query it cannot serve
DataAccessError == [message |-> "Failed to fetch"]

\* what .single() answers when the rows found are not exactly one
NoRowsError == [message |-> "JSON object requested, multiple (or no) rows returned"]

NoError == [message |-> ""]

\* from(table).select(...).eq(column, value).single(), given the rows that match
Single(rows, down) ==
    IF down THEN [data |-> << >>, error |-> DataAccessError]
    ELSE IF Cardinality(rows) # 1 THEN [data |-> << >>, error |-> NoRowsError]
    ELSE [data |-> <<CHOOSE r \in rows : TRUE>>, error |-> NoError]

QueryShipperByUser(table, userId, down) ==
    Single({r \in table : r.user_id = userId}, down)

QueryTripById(table, tripId, down) ==
    Single({table[i] : i \in {j \in 1..Len(table) : table[j].id = tripId}}, down)

----------------------------------------------------------------------------
(* The ranker *)

\* a sort that puts an element before the elements of its own score
RECURSIVE InsertByScoreUnstable(_, _)
InsertByScoreUnstable(sorted, m) ==
    IF sorted = << >> THEN <<m>>
    ELSE IF Head(sorted).score > m.score
         THEN <<Head(sorted)>> \o InsertByScoreUnstable(Tail(sorted), m)
         ELSE <<m>> \o sorted

\* Array.prototype.sort((a, b) => b.score - a.score) is stable: an element goes
\* after every element before it whose score is not lower
RECURSIVE InsertByScore(_, _)
InsertByScore(sorted, m) ==
    IF sorted = << >> THEN <<m>>
    ELSE IF Head(sorted).score >= m.score
         THEN <<Head(sorted)>> \o InsertByScore(Tail(sorted), m)
         ELSE <<m>> \o sorted

RECURSIVE SortByScore(_)
SortByScore(matches) ==
    IF matches = << >> THEN << >>
    ELSE InsertByScore(SortByScore(SubSeq(matches, 1, Len(matches) - 1)),
                       matches[Len(matches)])

\* a threshold at half of the scale
PassesThresholdHalf(matchScore) == matchScore > 50

\* the threshold of the loop: a candidate is kept when its score passes it
PassesThreshold(matchScore) == matchScore > 0

\* the loop of findMatchingTrips over the fetched trips
RECURSIVE ScoreCandidates(_, _)
ScoreCandidates(s, fetched) ==
    IF fetched = << >> THEN << >>
    ELSE LET t          == Head(fetched)
             matchScore == calculateMatchScore(s, t)
             rest       == ScoreCandidates(s, Tail(fetched))
         IN  IF PassesThreshold(matchScore)
             THEN <<[trip |-> t, score |-> matchScore, reasons |-> getMatchReasons(s, t)]>>
                      \o rest
             ELSE rest

\* a catch block that hands the error back in the list
MatchesOrError(s, response) ==
    IF response.error # NoError THEN <<response.error>>
    ELSE SortByScore(ScoreCandidates(s, response.data))

\* what findMatchingTrips returns, given the store's answer
MatchesOrEmpty(s, response) ==
    IF response.error # NoError THEN << >>
    ELSE SortByScore(ScoreCandidates(s, response.data))

----------------------------------------------------------------------------
(* The contact initiator *)

NotLoggedIn == "User not logged in"

\* a catch block that reports one fixed message
FailedGeneric(queries, kind, message) ==
    [queries |-> queries, kind |-> kind, rows |-> << >>,
     result |-> [success |-> FALSE, error |-> "Request failed"]]

\* the catch block: { success: false, error: error.message }; nothing was inserted
Failed(queries, kind, message) ==
    [queries |-> queries, kind |-> kind, rows |-> << >>,
     result |-> [success |-> FALSE, error |-> message]]

\* a row inserted as already accepted
ContactRequestRowAccepted(shipper, tripRow, shipmentId, tripId, message, clock) ==
    [shipper_id  |-> shipper.id,
     carrier_id  |-> tripRow.carrier_id,
     shipment_id |-> shipmentId,
     trip_id     |-> tripId,
     message     |-> message,
     status      |-> "accepted",
     created_at  |-> clock]

\* the row sendContactRequest inserts
ContactRequestRow(shipper, tripRow, shipmentId, tripId, message, clock) ==
    [shipper_id  |-> shipper.id,
     carrier_id  |-> tripRow.carrier_id,
     shipment_id |-> shipmentId,
     trip_id     |-> tripId,
     message     |-> message,
     status      |-> "pending",
     created_at  |-> clock]

\* an insert that is sent twice
InsertRequestTwice(row, queries, down) ==
    IF down
    THEN Failed(Append(queries, "contact_requests"), "data_access", DataAccessError.message)
    ELSE [queries |-> Append(queries, "contact_requests"), kind |-> "none",
          rows |-> <<row, row>>, result |-> [success |-> TRUE, error |-> ""]]

\* success returned without the insert being sent
InsertRequestSkipped(row, queries, down) ==
    [queries |-> queries, kind |-> "none", rows |-> << >>,
     result |-> [success |-> TRUE, error |-> ""]]

\* from('contact_requests').insert(row), then return { success: true, data }
InsertRequest(row, queries, down) ==
    IF down
    THEN Failed(Append(queries, "contact_requests"), "data_access", DataAccessError.message)
    ELSE [queries |-> Append(queries, "contact_requests"), kind |-> "none", rows |-> <<row>>,
          result |-> [success |-> TRUE, error |-> ""]]

\* the insert sent before the answer of the trips query is looked at
AfterTripQueryInsertFirst(shipper, tripResponse, shipmentId, tripId, message, clock, queries, down) ==
    LET row == ContactRequestRow(shipper, [carrier_id |-> 0], shipmentId, tripId, message,
                                 clock)
    IN  IF tripResponse.error # NoError
        THEN [Failed(Append(queries, "contact_requests"),
                     IF tripResponse.error = NoRowsError THEN "trip_not_found"
                     ELSE "data_access",
                     tripResponse.error.message) EXCEPT !.rows = <<row>>]
        ELSE InsertRequest(ContactRequestRow(shipper, tripResponse.data[1], shipmentId,
                                             tripId, message, clock),
                           queries, down)

\* from the answer of the trips query on
AfterTripQuery(shipper, tripResponse, shipmentId, tripId, message, clock, queries, down) ==
    IF tripResponse.error # NoError
    THEN Failed(queries, IF tripResponse.error = NoRowsError THEN "trip_not_found"
                         ELSE "data_access",
                tripResponse.error.message)
    ELSE InsertRequest(ContactRequestRow(shipper, tripResponse.data[1], shipmentId, tripId,
                                         message, clock),
                       queries, down)

\* from the answer of the shippers query on
AfterShipperQuery(shipperResponse, tripTable, shipmentId, tripId, message, clock, down) ==
    IF shipperResponse.error # NoError
    THEN Failed(<<"shippers">>, IF shipperResponse.error = NoRowsError THEN "shipper_not_found"
                                ELSE "data_access",
                shipperResponse.error.message)
    ELSE AfterTripQuery(shipperResponse.data[1], QueryTripById(tripTable, tripId, down[2]),
                        shipmentId, tripId, message, clock, <<"shippers", "trips">>, down[3])

\* one run of sendContactRequest: the queries it sends, in order, the rows it
\* inserts, what it returns and, for a failure, which failure it was.
\* down[i] says whether the store fails the i-th query.
SendOutcome(user, shipperTable, tripTable, shipmentId, tripId, message, clock, down) ==
    IF user = NoUser
    THEN Failed(<< >>, "not_authenticated", NotLoggedIn)
    ELSE AfterShipperQuery(QueryShipperByUser(shipperTable, user.id, down[1]), tripTable,
                           shipmentId, tripId, message, clock, down)

----------------------------------------------------------------------------
(* Bounds and the inputs drawn *)

MaxTrips == 3

MaxRequests == 2

MaxTicks == 2

Day(n) == n * HoursPerDay

StartOfClock == Day(9) + 12

NotScored == << >>

NoCall == [op |-> "none"]

\* two different strings naming the same gazetteer city, neither inside the other
RiyadhNorth == <<1588, 32>> \o Riyadh

RiyadhEast == Riyadh \o <<32, 1602>>

RiyadhPadded == <<32>> \o Riyadh \o <<32, 32>>

LatinUpper == <<74, 69, 68, 68, 65, 72>>

LatinLower == <<106, 101, 100, 100, 97, 104>>

TheShipment ==
    [id |-> 1, pickup_location |-> Riyadh, delivery_location |-> Jeddah, weight |-> <<800>>,
     preferred_date |-> <<Day(10)>>, vehicle_type_preferred |-> "truck"]

TheTrip ==
    [id |-> 0, carrier_id |-> 21, origin |-> Riyadh, destination |-> Jeddah,
     capacity |-> <<1000>>, travel_date |-> <<Day(10)>>, vehicle_type |-> "truck",
     status |-> "active"]

ScorerShipments ==
    { [TheShipment EXCEPT !.pickup_location = p, !.delivery_location = d, !.weight = w,
                          !.preferred_date = dt, !.vehicle_type_preferred = v] :
        p \in {Riyadh, RiyadhPadded, RiyadhNorth, << >>},
        d \in {Jeddah, LatinUpper},
        w \in {<<800>>, <<950>>, <<1100>>, <<1300>>, <<200>>, << >>},
        dt \in {<<Day(10)>>, <<Day(10) + 12>>, <<Day(12)>>, <<Day(17)>>, <<Day(24)>>,
                <<Day(25)>>, << >>},
        v \in {"truck", "van", ""} }

ScorerTrips ==
    { [TheTrip EXCEPT !.origin = o, !.destination = d, !.capacity = c, !.travel_date = dt,
                      !.vehicle_type = v] :
        o \in {Riyadh, RiyadhEast, Dammam},
        d \in {Jeddah, Makkah, LatinLower, << >>},
        c \in {<<1000>>, <<100>>, <<0>>, <<-1000>>},
        dt \in {<<Day(10)>>},
        v \in {"truck", "motorcycle", "any"} }

\* the shipments findMatchingTrips is asked about
MatchShipments ==
    { TheShipment,
      [TheShipment EXCEPT !.id = 2, !.pickup_location = Dammam, !.weight = <<500>>,
                          !.preferred_date = <<Day(11)>>, !.vehicle_type_preferred = "van"] }

\* the rows the trips table is filled from; the worst of them scores the least
\* a pair can score with TheShipment
TripShapes ==
    { TheTrip,
      [TheTrip EXCEPT !.travel_date = <<Day(12)>>, !.carrier_id = 22],
      [TheTrip EXCEPT !.status = "inactive"],
      [TheTrip EXCEPT !.status = "completed", !.travel_date = <<Day(12)>>],
      [TheTrip EXCEPT !.travel_date = <<Day(9)>>],
      [TheTrip EXCEPT !.origin = << >>, !.destination = << >>, !.capacity = <<0>>,
                      !.travel_date = <<Day(40)>>, !.vehicle_type = "motorcycle",
                      !.carrier_id = 23] }

\* a trips table: its i-th row has id i
TripTables ==
    { [i \in 1..Len(rows) |-> [rows[i] EXCEPT !.id = i]] :
        rows \in UNION { [1..m -> TripShapes] : m \in 0..MaxTrips } }

Users == { [id |-> "u1"], [id |-> "u2"] }

TheShippers == { [id |-> 11, user_id |-> "u1"] }

TheTrips ==
    << [TheTrip EXCEPT !.id = 1], [TheTrip EXCEPT !.id = 2, !.carrier_id = 22] >>

TripIds == {1, 2, 3}

Idle ==
    /\ currentUser = NoUser
    /\ now = StartOfClock
    /\ ret = NoCall
    /\ failures = {}
    /\ contact_requests = << >>
    /\ shippers = TheShippers

----------------------------------------------------------------------------
(* The scorer on its own: a pair is drawn, then scored *)

InitScore ==
    /\ shipment \in ScorerShipments
    /\ trip \in ScorerTrips
    /\ scored = NotScored
    /\ trips = << >>
    /\ Idle

Score ==
    /\ scored = NotScored
    /\ scored' = <<calculateMatchScore(shipment, trip)>>
    /\ UNCHANGED <<shipment, trip, trips, shippers, contact_requests, currentUser, now, ret,
                   failures>>

NextScore == Score

SpecScore == InitScore /\ [][NextScore]_vars

----------------------------------------------------------------------------
(* Candidate fetch and ranking over a trips table, while the clock runs *)

InitMatch ==
    /\ shipment = TheShipment
    /\ trip = TheTrip
    /\ scored = NotScored
    /\ trips \in TripTables
    /\ Idle

\* findMatchingTrips(s); down: the store fails the query
FindMatchingTrips(s, down) ==
    LET today    == TodayISO(now)
        response == IF down THEN [data |-> << >>, error |-> DataAccessError]
                    ELSE [data |-> QueryActiveTrips(trips, today), error |-> NoError]
    IN  /\ ret' = [op |-> "findMatchingTrips", shipment |-> s, at |-> now,
                   queries |-> <<"trips">>, response |-> response,
                   result |-> MatchesOrEmpty(s, response)]
        /\ UNCHANGED <<shipment, trip, scored, trips, shippers, contact_requests, currentUser,
                       now, failures>>

Tick ==
    /\ now < StartOfClock + MaxTicks * (HoursPerDay \div 2)
    /\ now' = now + HoursPerDay \div 2
    /\ UNCHANGED <<shipment, trip, scored, trips, shippers, contact_requests, currentUser,
                   ret, failures>>

NextMatch ==
    \/ \E s \in MatchShipments, down \in BOOLEAN : FindMatchingTrips(s, down)
    \/ Tick

SpecMatch == InitMatch /\ [][NextMatch]_vars

----------------------------------------------------------------------------
(* The engine in use: users sign in and out, look for trips and send contact  *)
(* requests                                                                  *)

Init ==
    /\ shipment = TheShipment
    /\ trip = TheTrip
    /\ scored = NotScored
    /\ trips = TheTrips
    /\ Idle

\* SIGNED_IN: _loadUserProfile sets currentUser
SignIn(u) ==
    /\ currentUser' = u
    /\ UNCHANGED <<shipment, trip, scored, trips, shippers, contact_requests, now, ret,
                   failures>>

\* SIGNED_OUT, logout(): currentUser = null
SignOut ==
    /\ currentUser' = NoUser
    /\ UNCHANGED <<shipment, trip, scored, trips, shippers, contact_requests, now, ret,
                   failures>>

\* sendContactRequest(shipmentId, tripId, message)
SendContactRequest(shipmentId, tripId, message, down) ==
    LET out == SendOutcome(currentUser, shippers, trips, shipmentId, tripId, message, now, down)
    IN  /\ Len(contact_requests) < MaxRequests
        /\ contact_requests' = contact_requests \o out.rows
        /\ ret' = [op |-> "sendContactRequest", user |-> currentUser,
                   shipmentId |-> shipmentId, tripId |-> tripId, message |-> message,
                   before |-> contact_requests, queries |-> out.queries,
                   kind |-> out.kind, result |-> out.result]
        /\ failures' = IF out.result.success THEN failures
                       ELSE failures \cup {<<out.kind, out.result.error>>}
        /\ UNCHANGED <<shipment, trip, scored, trips, shippers, currentUser, now>>

Next ==
    \/ \E u \in Users : SignIn(u)
    \/ SignOut
    \/ \E s \in MatchShipments, down \in BOOLEAN : FindMatchingTrips(s, down)
    \/ \E tripId \in TripIds, down \in [1..3 -> BOOLEAN] :
          SendContactRequest(1, tripId, "hello", down)

Spec == Init /\ [][Next]_vars

----------------------------------------------------------------------------
(* Properties of the scorer (checked under SpecScore) *)

WasScored == scored # NotScored

\* the pair has the same pickup and origin, the same delivery and destination
\* (none of them missing), the same valid date and the same vehicle type
IdenticalPair ==
    /\ shipment.pickup_location = trip.origin
    /\ shipment.pickup_location # << >>
    /\ shipment.delivery_location = trip.destination
    /\ shipment.delivery_location # << >>
    /\ shipment.preferred_date = trip.travel_date
    /\ shipment.preferred_date # << >>
    /\ shipment.vehicle_type_preferred = trip.vehicle_type

\* C1: for every shipment and every trip, calculateMatchScore returns a value
\* between 0 and 100 inclusive.
C1_ScoreInRange == WasScored => scored[1] >= 0 /\ scored[1] <= 100

C1_Witness == WasScored /\ scored[1] = 100 /\ ~IdenticalPair

\* C2: the composite score is 40*L + 30*C + 20*D + 10*V of the sub-scores of the
\* same pair (L is a number of twentieths, C, D and V are numbers of tenths, so
\* both sides are taken times 20); an identical pair with utilization 0.8 scores
\* exactly 100, and an identical pair with utilization above 1.2 scores at most 70.
C2_WeightedSum ==
    WasScored =>
        /\ 20 * scored[1] = 40 * calculateLocationScore(shipment, trip)
                            + 30 * 2 * calculateCapacityScore(shipment, trip)
                            + 20 * 2 * calculateDateScore(shipment, trip)
                            + 10 * 2 * calculateVehicleScore(shipment, trip)
        /\ (/\ IdenticalPair
            /\ shipment.weight # << >> /\ trip.capacity # << >> /\ trip.capacity[1] > 0
            /\ 10 * shipment.weight[1] = 8 * trip.capacity[1]) => scored[1] = 100
        /\ (/\ IdenticalPair
            /\ shipment.weight # << >> /\ trip.capacity # << >> /\ trip.capacity[1] > 0
            /\ 10 * shipment.weight[1] > 12 * trip.capacity[1]) => scored[1] <= 70

C2_Witness ==
    /\ WasScored
    /\ IdenticalPair
    /\ shipment.weight = <<1300>>
    /\ trip.capacity = <<1000>>
    /\ scored[1] = 70

----------------------------------------------------------------------------
(* Properties of the candidate fetch and the ranking (checked under SpecMatch) *)

Found == ret.op = "findMatchingTrips"

FoundOk == Found /\ ret.response.error = NoError

\* where a trip stands in the sequence the query returned
FetchIndex(t) == CHOOSE i \in 1..Len(ret.response.data) : ret.response.data[i] = t

\* C3: the list findMatchingTrips returns is in non-increasing order of score,
\* two results of equal score stand in the order in which they were fetched, and
\* an empty fetched sequence gives an empty list.
C3_RankedStable ==
    FoundOk =>
        /\ \A i, j \in 1..Len(ret.result) :
              i < j =>
                 /\ ret.result[i].score >= ret.result[j].score
                 /\ ret.result[i].score = ret.result[j].score
                       => FetchIndex(ret.result[i].trip) < FetchIndex(ret.result[j].trip)
        /\ ret.response.data = << >> => ret.result = << >>

C3_Witness ==
    /\ FoundOk
    /\ Len(ret.result) = 3
    /\ ret.result[1].score > ret.result[2].score
    /\ ret.result[2].score = ret.result[3].score
    /\ ret.result[1].trip.id = 2

\* C4: every trip the candidate fetch returned appears exactly once in the list
\* findMatchingTrips returns, and nothing else does.
C4_NoCandidateDropped ==
    FoundOk =>
        /\ Len(ret.result) = Len(ret.response.data)
        /\ \A i \in 1..Len(ret.response.data) :
              Cardinality({j \in 1..Len(ret.result) :
                              ret.result[j].trip = ret.response.data[i]}) = 1

\* the least score a pair reaches is in the list
C4_Witness ==
    /\ FoundOk
    /\ Len(ret.result) >= 2
    /\ ret.result[Len(ret.result)].score = 3

\* C5 as stated: a failed trips query gives the caller something other than what
\* a successful fetch that found no candidate gives.
C5_FailureDistinct ==
    (Found /\ ret.response.error # NoError)
        => ret.result # MatchesOrEmpty(ret.shipment, [data |-> << >>, error |-> NoError])

\* C5, amended: a failed trips query makes findMatchingTrips return the empty
\* list, which is what it returns when the fetch succeeds and finds no candidate.
C5_FailureIsEmptyList ==
    (Found /\ ret.response.error # NoError) => ret.result = << >>

C5_Witness ==
    /\ Found
    /\ ret.response.error = DataAccessError
    /\ QueryActiveTrips(trips, ret.at \div HoursPerDay) # << >>

\* C6: every trip in the list has status active and a travel date on or after
\* the calendar day (UTC) of the call, and is a row of the trips table.
C6_OnlyActiveUpcoming ==
    Found =>
        \A i \in 1..Len(ret.result) :
            /\ ret.result[i].trip.status = "active"
            /\ ret.result[i].trip.travel_date[1] \div HoursPerDay >= ret.at \div HoursPerDay
            /\ \E k \in 1..Len(trips) : trips[k] = ret.result[i].trip

\* the table holds a trip that is not active and an active trip of the day before
\* the call, and the list holds another row
C6_Witness ==
    /\ FoundOk
    /\ Len(ret.result) = 1
    /\ \E k \in 1..Len(trips) : trips[k].status # "active"
    /\ \E k \in 1..Len(trips) :
          /\ trips[k].status = "active"
          /\ trips[k].travel_date[1] \div HoursPerDay < ret.at \div HoursPerDay

----------------------------------------------------------------------------
(* Properties of the contact initiator (checked under Spec) *)

Sent == ret.op = "sendContactRequest"

ShipperRowsOf(u) == {r \in shippers : r.user_id = u.id}

TripRowsOf(tripId) == {trips[k] : k \in {j \in 1..Len(trips) : trips[j].id = tripId}}

\* C7: when there is no current user, or the shippers table has no row of the
\* current user, or the trips table has no row with the given id, the call fails
\* and the contact requests are what they were before it.
C7_NoInsertOnFailure ==
    (/\ Sent
     /\ \/ ret.user = NoUser
        \/ ShipperRowsOf(ret.user) = {}
        \/ TripRowsOf(ret.tripId) = {})
        => /\ ~ret.result.success
           /\ contact_requests = ret.before

\* the trip is the one thing missing, with a request already in the table
C7_Witness ==
    /\ Sent
    /\ ret.user # NoUser
    /\ ShipperRowsOf(ret.user) # {}
    /\ TripRowsOf(ret.tripId) = {}
    /\ ret.kind = "trip_not_found"
    /\ Len(ret.before) = 1

\* C8: a call that returns success has appended exactly one row: status pending,
\* the id of the shipper row of the current user, the carrier of the given trip,
\* the given shipment id, trip id and message; rows equal to it that are already
\* in the table do not prevent it.
C8_OneRowPerSuccess ==
    (Sent /\ ret.result.success) =>
        /\ Len(contact_requests) = Len(ret.before) + 1
        /\ SubSeq(contact_requests, 1, Len(ret.before)) = ret.before
        /\ LET row == contact_requests[Len(contact_requests)]
           IN  /\ row.status = "pending"
               /\ \E r \in ShipperRowsOf(ret.user) : row.shipper_id = r.id
               /\ \E t \in TripRowsOf(ret.tripId) : row.carrier_id = t.carrier_id
               /\ row.shipment_id = ret.shipmentId
               /\ row.trip_id = ret.tripId
               /\ row.message = ret.message

\* two successful calls with the same arguments have left two equal rows
C8_Witness ==
    /\ Sent
    /\ ret.result.success
    /\ Len(contact_requests) = 2
    /\ contact_requests[1] = contact_requests[2]

\* C9 as stated: two failures of different kinds never report the same reason.
C9_ReasonsDistinct ==
    \A f, g \in failures : f[1] # g[1] => f[2] # g[2]

\* C9, amended: not-authenticated is reported as "User not logged in", which no
\* other failure reports; the other failures report the message of the store's
\* error unchanged, and shipper-not-found and trip-not-found both report the
\* message of the no-rows error of .single().
C9_ReasonIsErrorMessage ==
    \A f \in failures :
        /\ f[1] \in {"not_authenticated", "shipper_not_found", "trip_not_found", "data_access"}
        /\ f[1] = "not_authenticated" <=> f[2] = "User not logged in"
        /\ f[1] \in {"shipper_not_found", "trip_not_found"} => f[2] = NoRowsError.message
        /\ f[1] = "data_access" => f[2] = DataAccessError.message

C9_Witness ==
    /\ <<"shipper_not_found", NoRowsError.message>> \in failures
    /\ <<"trip_not_found", NoRowsError.message>> \in failures
    /\ <<"not_authenticated", NotLoggedIn>> \in failures
    /\ <<"data_access", DataAccessError.message>> \in failures

\* C10 as stated: every invocation of either operation sends exactly one query.
C10_OneRoundTrip == (Found \/ Sent) => Len(ret.queries) = 1

\* C10, amended: findMatchingTrips sends exactly one query; sendContactRequest
\* sends none when there is no current user, three (shippers, trips, then the
\* insert) when it succeeds, and otherwise stops after the first query that
\* fails: one when the shipper does not resolve, two when the trip does not.
C10_RoundTrips ==
    /\ Found => ret.queries = <<"trips">>
    /\ Sent =>
          /\ ret.user = NoUser => ret.queries = << >>
          /\ ret.result.success => ret.queries = <<"shippers", "trips", "contact_requests">>
          /\ (ret.user # NoUser /\ ~ret.result.success) =>
                \/ ret.queries = <<"shippers">>
                \/ ret.queries = <<"shippers", "trips">>
                \/ ret.queries = <<"shippers", "trips", "contact_requests">>
          /\ (ret.user # NoUser /\ ShipperRowsOf(ret.user) = {}) => ret.queries = <<"shippers">>
          /\ (ret.kind = "trip_not_found") => ret.queries = <<"shippers", "trips">>

C10_Witness ==
    /\ Sent
    /\ ret.result.success
    /\ Len(ret.queries) = 3

\* C11: no step of the engine creates, changes or deletes a row of the trips or
\* the shippers table (it reads no other table: a shipment reaches it as an
\* argument only); a step changes the contact requests only by appending one
\* row to them, and only a step of sendContactRequest does.
C11_OnlyAppendsRequests ==
    [][ /\ trips' = trips
        /\ shippers' = shippers
        /\ \/ contact_requests' = contact_requests
           \/ /\ ret'.op = "sendContactRequest"
              /\ Len(contact_requests') = Len(contact_requests) + 1
              /\ SubSeq(contact_requests', 1, Len(contact_requests)) = contact_requests ]_vars

\* trips were looked for after a request was sent, and the tables are as they were
C11_Witness ==
    /\ Found
    /\ Len(ret.result) = 2
    /\ Len(contact_requests) = 1
    /\ trips = TheTrips
    /\ shippers = TheShippers

----------------------------------------------------------------------------
(* The capacity sub-score on its own: a weight and a capacity are drawn, then *)
(* scored                                                                    *)

CapacityWeights ==
    { << >>, <<-800>>, <<-100>>, <<0>>, <<100>>, <<299>>, <<300>>, <<499>>, <<500>>, <<699>>,
      <<700>>, <<800>>, <<900>>, <<901>>, <<950>>, <<1000>>, <<1001>>, <<1100>>, <<1200>>,
      <<1201>>, <<8000>> }

CapacityCapacities == { <<1000>>, <<100>>, <<0>>, << >>, <<-1000>>, <<-100>> }

InitCapacity ==
    /\ shipment \in { [TheShipment EXCEPT !.weight = w] : w \in CapacityWeights }
    /\ trip \in { [TheTrip EXCEPT !.capacity = c] : c \in CapacityCapacities }
    /\ scored = NotScored
    /\ trips = << >>
    /\ Idle

ScoreCapacity ==
    /\ scored = NotScored
    /\ scored' = <<calculateCapacityScore(shipment, trip)>>
    /\ UNCHANGED <<shipment, trip, trips, shippers, contact_requests, currentUser, now, ret,
                   failures>>

NextCapacity == ScoreCapacity

SpecCapacity == InitCapacity /\ [][NextCapacity]_vars

\* the weight as a number: a weight that is not a number counts as 0
WeightRead == IF shipment.weight = << >> THEN 0 ELSE shipment.weight[1]

CapacityIsPositive == trip.capacity # << >> /\ trip.capacity[1] > 0

\* C12 as stated: the capacity score is 0 for every trip whose capacity is zero
\* or negative, whatever the weight.
C12_ZeroWithoutCapacity ==
    (WasScored /\ trip.capacity # << >> /\ trip.capacity[1] <= 0) => scored[1] = 0

\* C15: for a positive capacity the capacity score is that of the first band, in
\* the order [0.7, 0.9], [0.5, 1.0], [0.3, 1.2], above 1.2, rest, that holds
\* weight / capacity; so (0.9, 1.0] gives 0.8, (1.0, 1.2] gives 0.6 and every
\* utilization below 0.3 gives 0.4.
C15_FirstBandWins ==
    (WasScored /\ CapacityIsPositive) =>
        LET w == 10 * WeightRead
            c == trip.capacity[1]
        IN  /\ scored[1] = IF 7 * c <= w /\ w <= 9 * c THEN 10
                           ELSE IF 5 * c <= w /\ w <= 10 * c THEN 8
                           ELSE IF 3 * c <= w /\ w <= 12 * c THEN 6
                           ELSE IF w > 12 * c THEN 0
                           ELSE 4
            /\ (9 * c < w /\ w <= 10 * c) => scored[1] = 8
            /\ (10 * c < w /\ w <= 12 * c) => scored[1] = 6
            /\ w < 3 * c => scored[1] = 4

\* utilization 0.8, inside both of the first two bands
C15_Witness ==
    /\ WasScored
    /\ shipment.weight = <<800>>
    /\ trip.capacity = <<1000>>
    /\ scored[1] = 10

----------------------------------------------------------------------------
(* The date sub-score on its own: two dates are drawn, then scored in both    *)
(* orders                                                                    *)

ShipmentDates ==
    { << >>, <<Day(3)>>, <<Day(9)>>, <<Day(10)>>, <<Day(10) + 12>>, <<Day(11)>>,
      <<Day(11) + 1>>, <<Day(12)>>, <<Day(13)>>, <<Day(13) + 1>>, <<Day(17)>>, <<Day(17) + 1>>,
      <<Day(20)>>, <<Day(24)>>, <<Day(24) + 1>>, <<Day(30)>> }

TripDates ==
    { << >>, <<Day(10)>>, <<Day(11)>>, <<Day(13)>>, <<Day(17)>>, <<Day(24)>>, <<Day(25)>>,
      <<Day(40)>> }

InitDate ==
    /\ shipment \in { [TheShipment EXCEPT !.preferred_date = d] : d \in ShipmentDates }
    /\ trip \in { [TheTrip EXCEPT !.travel_date = d] : d \in TripDates }
    /\ scored = NotScored
    /\ trips = << >>
    /\ Idle

\* the score of the pair, and the score of the pair with its two dates exchanged
ScoreDate ==
    /\ scored = NotScored
    /\ scored' = << calculateDateScore(shipment, trip),
                    calculateDateScore([shipment EXCEPT !.preferred_date = trip.travel_date],
                                       [trip EXCEPT !.travel_date = shipment.preferred_date]) >>
    /\ UNCHANGED <<shipment, trip, trips, shippers, contact_requests, currentUser, now, ret,
                   failures>>

NextDate == ScoreDate

SpecDate == InitDate /\ [][NextDate]_vars

DatesValid == shipment.preferred_date # << >> /\ trip.travel_date # << >>

\* the distance of the two dates, in hours
HoursApart ==
    IF shipment.preferred_date[1] >= trip.travel_date[1]
    THEN shipment.preferred_date[1] - trip.travel_date[1]
    ELSE trip.travel_date[1] - shipment.preferred_date[1]

\* C14: the date score is 1.0 exactly when the two dates are zero days apart; it
\* is 0.9 up to 1 day, 0.7 up to 3, 0.5 up to 7, 0.3 up to 14 and 0 beyond, so
\* it never rises with the distance; and it is the same whichever of the two
\* dates is the earlier one.
C14_DateBands ==
    (WasScored /\ DatesValid) =>
        /\ scored[1] = 10 <=> HoursApart = 0
        /\ scored[1] = IF HoursApart = 0 THEN 10
                       ELSE IF HoursApart <= 24 THEN 9
                       ELSE IF HoursApart <= 3 * 24 THEN 7
                       ELSE IF HoursApart <= 7 * 24 THEN 5
                       ELSE IF HoursApart <= 14 * 24 THEN 3
                       ELSE 0
        /\ scored[2] = scored[1]

\* the shipment two days before the trip and, exchanged, two days after it
C14_Witness ==
    /\ WasScored
    /\ shipment.preferred_date = <<Day(11)>>
    /\ trip.travel_date = <<Day(13)>>
    /\ scored = <<7, 7>>

----------------------------------------------------------------------------
(* The vehicle sub-score on its own: two types are drawn, then scored in both *)
(* orders                                                                    *)

VehicleTypes ==
    { "", "any", "van", "pickup", "truck", "motorcycle", "trailer", "Van", "car", "bus" }

InitVehicle ==
    /\ shipment \in { [TheShipment EXCEPT !.vehicle_type_preferred = v] : v \in VehicleTypes }
    /\ trip \in { [TheTrip EXCEPT !.vehicle_type = v] : v \in VehicleTypes }
    /\ scored = NotScored
    /\ trips = << >>
    /\ Idle

\* the score of the pair, and the score of the pair with its two types exchanged
ScoreVehicle ==
    /\ scored = NotScored
    /\ scored' = << calculateVehicleScore(shipment, trip),
                    calculateVehicleScore(
                        [shipment EXCEPT !.vehicle_type_preferred = trip.vehicle_type],
                        [trip EXCEPT !.vehicle_type = shipment.vehicle_type_preferred]) >>
    /\ UNCHANGED <<shipment, trip, trips, shippers, contact_requests, currentUser, now, ret,
                   failures>>

NextVehicle == ScoreVehicle

SpecVehicle == InitVehicle /\ [][NextVehicle]_vars

\* C18: the vehicle score is 1.0 when either type is any (a missing type counts
\* as any) or the two types are equal, 0.7 when they differ and both are among
\* pickup, van and truck, and 0.3 otherwise; exchanging the two types does not
\* change it.
C18_VehicleTable ==
    WasScored =>
        LET a == IF shipment.vehicle_type_preferred = "" THEN "any"
                 ELSE shipment.vehicle_type_preferred
            b == IF trip.vehicle_type = "" THEN "any" ELSE trip.vehicle_type
        IN  /\ scored[1] = IF a = "any" \/ b = "any" \/ a = b THEN 10
                           ELSE IF {a, b} \subseteq {"pickup", "van", "truck"} THEN 7
                           ELSE 3
            /\ scored[2] = scored[1]

C18_Witness ==
    /\ WasScored
    /\ shipment.vehicle_type_preferred = "truck"
    /\ trip.vehicle_type = "pickup"
    /\ scored = <<7, 7>>

----------------------------------------------------------------------------
(* Location similarity on its own: two strings are drawn, then compared in    *)
(* both orders                                                                *)

\* a string that names two gazetteer cities, and one that names the second of them
RiyadhJeddah == Riyadh \o <<32>> \o Jeddah

JeddahWest == Jeddah \o <<32, 1594>>

Unknown == <<120, 121, 122>>

Blank == <<32>>

Locations ==
    { << >>, Blank, Unknown, LatinUpper, LatinLower, Riyadh, RiyadhPadded, RiyadhNorth,
      RiyadhEast, RiyadhJeddah, Jeddah, JeddahWest, Makkah, Dammam, Khobar, Ahsa, Hail, Tabuk }

InitLocation ==
    /\ shipment \in { [TheShipment EXCEPT !.pickup_location = l] : l \in Locations }
    /\ trip \in { [TheTrip EXCEPT !.origin = l] : l \in Locations }
    /\ scored = NotScored
    /\ trips = << >>
    /\ Idle

\* the similarity of pickup and origin, and of origin and pickup
ScoreLocation ==
    /\ scored = NotScored
    /\ scored' = << locationSimilarity(shipment.pickup_location, trip.origin),
                    locationSimilarity(trip.origin, shipment.pickup_location) >>
    /\ UNCHANGED <<shipment, trip, trips, shippers, contact_requests, currentUser, now, ret,
                   failures>>

NextLocation == ScoreLocation

SpecLocation == InitLocation /\ [][NextLocation]_vars

\* C13: locationSimilarity(a, b) = locationSimilarity(b, a) for all a and b.
C13_Symmetric == WasScored => scored[1] = scored[2]

\* one string inside the other, in the direction the first test does not see
C13_Witness ==
    /\ WasScored
    /\ shipment.pickup_location = Riyadh
    /\ trip.origin = RiyadhEast
    /\ scored = <<8, 8>>

\* the two strings as locationSimilarity compares them
Clean1 == Trim(ToLowerCase(shipment.pickup_location))

Clean2 == Trim(ToLowerCase(trip.origin))

\* C16 as stated: for two non-empty normalized strings that are not equal and of
\* which neither contains the other, a gazetteer city that both contain gives
\* 0.9, and 0.6 and 0.2 are given only when no gazetteer city is in both.
C16_CommonCityGivesNine ==
    (/\ WasScored
     /\ Clean1 # << >> /\ Clean2 # << >> /\ Clean1 # Clean2
     /\ ~Includes(Clean1, Clean2) /\ ~Includes(Clean2, Clean1))
        => LET common == \E i \in 1..Len(cities) :
                            Includes(Clean1, cities[i]) /\ Includes(Clean2, cities[i])
           IN  /\ common => scored[1] = 9
               /\ scored[1] \in {6, 2} => ~common

----------------------------------------------------------------------------
(* The reason generator on its own: a pair is drawn, then explained *)

ReasonShipments ==
    { [TheShipment EXCEPT !.pickup_location = p, !.delivery_location = d, !.weight = w,
                          !.preferred_date = dt, !.vehicle_type_preferred = v] :
        p \in {Riyadh, RiyadhEast, RiyadhNorth, Dammam, << >>},
        d \in {Jeddah, Makkah},
        w \in {<<800>>, <<700>>, <<950>>, <<500>>, <<1100>>, <<200>>, <<-800>>, << >>},
        dt \in {<<Day(10)>>, <<Day(10) + 12>>, <<Day(13)>>, <<Day(13) + 1>>, << >>},
        v \in {"truck", "van", "any", ""} }

ReasonTrips ==
    { [TheTrip EXCEPT !.origin = o, !.capacity = c, !.vehicle_type = v] :
        o \in {Riyadh, RiyadhEast},
        c \in {<<1000>>, <<0>>, <<-1000>>},
        v \in {"truck", "any", ""} }

InitReasons ==
    /\ shipment \in ReasonShipments
    /\ trip \in ReasonTrips
    /\ scored = NotScored
    /\ trips = << >>
    /\ Idle

Explain ==
    /\ scored = NotScored
    /\ scored' = <<getMatchReasons(shipment, trip)>>
    /\ UNCHANGED <<shipment, trip, trips, shippers, contact_requests, currentUser, now, ret,
                   failures>>

NextReasons == Explain

SpecReasons == InitReasons /\ [][NextReasons]_vars

\* <<x>> when cond holds, nothing otherwise
Given(cond, x) == IF cond THEN <<x>> ELSE << >>

\* weight / capacity lies in [lo / 10, hi / 10]; a capacity that is 0 or not a
\* number gives no utilization
UtilizationWithin(lo, hi) ==
    LET w == 10 * WeightRead
        c == IF trip.capacity = << >> THEN 0 ELSE trip.capacity[1]
    IN  \/ c > 0 /\ lo * c <= w /\ w <= hi * c
        \/ c < 0 /\ lo * c >= w /\ w >= hi * c

\* both types are given, neither is any, and they are the same
SameVehicleType ==
    /\ shipment.vehicle_type_preferred \notin {"", "any"}
    /\ shipment.vehicle_type_preferred = trip.vehicle_type

\* C17: getMatchReasons returns exactly the reasons whose condition holds, in the
\* order pickup match (similarity at least 0.8), delivery match (similarity at
\* least 0.8), capacity fit (one message for a utilization in [0.7, 0.9], another
\* for the rest of [0.5, 1.0]), date fit (one message for 0 days apart, one that
\* names the distance for up to 3 days), vehicle type match (the same type on
\* both sides, any not being a type); so at most one capacity and one date
\* message, and the empty list when no condition holds.
C17_ReasonsInOrder ==
    WasScored =>
        scored[1] =
            Given(locationSimilarity(shipment.pickup_location, trip.origin) >= 8,
                  <<"pickup_location_matches">>)
            \o Given(locationSimilarity(shipment.delivery_location, trip.destination) >= 8,
                     <<"delivery_location_matches">>)
            \o Given(UtilizationWithin(7, 9), <<"capacity_fits_exactly">>)
            \o Given(UtilizationWithin(5, 10) /\ ~UtilizationWithin(7, 9), <<"capacity_fits">>)
            \o Given(DatesValid /\ HoursApart = 0, <<"date_matches_exactly">>)
            \o Given(DatesValid /\ HoursApart > 0 /\ HoursApart <= 3 * 24,
                     <<"days_apart", HoursApart>>)
            \o Given(SameVehicleType, <<"vehicle_type_matches">>)

\* every condition holds: five reasons
C17_Witness ==
    /\ WasScored
    /\ Len(scored[1]) = 5
    /\ scored[1][3] = <<"capacity_fits_exactly">>
    /\ scored[1][4] = <<"date_matches_exactly">>

----------------------------------------------------------------------------
(* The least composite score (checked under SpecScore) *)

\* C19: the composite score is never 0: it is at least 3 for every pair, and at
\* least 7 when both vehicle types are among van, pickup, truck and any (a
\* missing type counting as any); so every score passes the matchScore > 0 test
\* of findMatchingTrips.
C19_ScoreAtLeastThree ==
    WasScored =>
        /\ scored[1] >= 3
        /\ scored[1] > 0
        /\ ({shipment.vehicle_type_preferred, trip.vehicle_type}
                \subseteq {"van", "pickup", "truck", "any", ""}) => scored[1] >= 7

\* nothing but the vehicle sub-score of two unlike types counts
C19_Witness ==
    /\ WasScored
    /\ scored[1] = 3
    /\ shipment.pickup_location = << >>
    /\ trip.destination = << >>
    /\ trip.vehicle_type = "motorcycle"

====
